---- MODULE Spec2Model ----
(***************************************************************************)
(* Model of flight/Modules/Sensors/sensors.c: the SensorsTask acquisition  *)
(* loop, the calibration transforms update_accels / update_gyros /         *)
(* update_mags, the magnetometer bias estimator magOffsetEstimation and    *)
(* the settings callback settingsUpdatedCb, which runs once on the task    *)
(* at start-up and afterwards on the event dispatcher's context.           *)
(*                                                                         *)
(* Floats are modelled by exact integers plus one not-a-number value; the  *)
(* inputs are chosen so that every square root and quotient is exact.      *)
(* Vectors float[3] are tuples <<x, y, z>> (C index i is TLA+ index i+1).  *)
(***************************************************************************)
EXTENDS Integers, Sequences, FiniteSets, TLC

\* ------------------------------------------------------------------ bounds
MaxQueue == 1
MaxReloads == 1
MaxPending == 1
TickWrap == 4
MaxBias == 40

\* --------------------------------------------------------- program constants
SENSOR_PERIOD == 2
portTICK_RATE_MS == 1
GYRO_TIMEOUT == 4

\* The float not-a-number; every other float of the model is a small integer.
NaN == -1000000

IsNaN(x) == x = NaN

\* a / b for a norm b >= 0: 0/0 is NaN; the inputs keep the quotient exact
FDiv(a, b) == IF b = 0 THEN NaN ELSE a \div b
\* x == x of C: false exactly for NaN
FSelfEq(a) == ~IsNaN(a)

\* sqrtf on the perfect squares the inputs produce (largest r with r*r <= n)
RECURSIVE RootFrom(_, _)
RootFrom(n, r) == IF (r + 1) * (r + 1) > n THEN r ELSE RootFrom(n, r + 1)
sqrtf(n) == RootFrom(n, 0)

\* cosf / sinf of an angle in degrees, at the multiples of 90 the inputs use
cosDeg(d) ==
  LET m == d % 360 IN IF m = 0 THEN 1 ELSE IF m = 180 THEN -1 ELSE 0
sinDeg(d) ==
  LET m == d % 360 IN IF m = 90 THEN 1 ELSE IF m = 270 THEN -1 ELSE 0

Zero3 == <<0, 0, 0>>
ZeroMat == <<Zero3, Zero3, Zero3>>

\* rot_mult(R, vec, out, false): out[i] = sum_j R[i][j] * vec[j]
rot_mult(R, v) ==
  [i \in 1..3 |-> R[i][1] * v[1] + R[i][2] * v[2] + R[i][3] * v[3]]

\* Quaternion2R: rotation matrix of a unit quaternion <<q0, q1, q2, q3>>
Quaternion2R(q) ==
  LET q0s == q[1] * q[1]
      q1s == q[2] * q[2]
      q2s == q[3] * q[3]
      q3s == q[4] * q[4]
  IN << << q0s + q1s - q2s - q3s,
           2 * (q[2] * q[3] + q[1] * q[4]),
           2 * (q[2] * q[4] - q[1] * q[3]) >>,
        << 2 * (q[2] * q[3] - q[1] * q[4]),
           q0s - q1s + q2s - q3s,
           2 * (q[3] * q[4] + q[1] * q[2]) >>,
        << 2 * (q[2] * q[4] + q[1] * q[3]),
           2 * (q[3] * q[4] - q[1] * q[2]),
           q0s - q1s - q2s + q3s >> >>

\* Quaternion2R(RPY2Quaternion(rpy)) for rpy in degrees, multiples of 90
RPY2R(rpy) ==
  LET cr == cosDeg(rpy[1])
      sr == sinDeg(rpy[1])
      cp == cosDeg(rpy[2])
      sp == sinDeg(rpy[2])
      cy == cosDeg(rpy[3])
      sy == sinDeg(rpy[3])
  IN << << cp * cy, cp * sy, 0 - sp >>,
        << sr * sp * cy - cr * sy, sr * sp * sy + cr * cy, sr * cp >>,
        << cr * sp * cy + sr * sy, cr * sp * sy - sr * cy, cr * cp >> >>

\* ------------------------------------------------------------------ inputs
Kinds == {"GYRO", "ACCEL", "MAG"}

\* struct pios_sensor_mag_data: x, y, z. With the home field and attitude of
\* LoopUavo the first gives a finite correction, the second a NaN one
MagSamples == { [v |-> <<3, 0, 4>>], [v |-> <<-2, 0, 4>>] }
\* struct pios_sensor_gyro_data / pios_sensor_accel_data before a receive
NoSample == [v |-> Zero3, temp |-> 0]

\* The four settings objects whose change triggers settingsUpdatedCb
RevoCalibrationSet ==
  { [MagBias |-> <<0, 0, 0>>, MagScale |-> <<1, 1, 1>>],
    [MagBias |-> <<1, 0, -1>>, MagScale |-> <<1, 2, 3>>] }
InertialSensorSettingsSet ==
  { [AccelBias |-> <<0, 0, 0>>, AccelScale |-> <<1, 1, 1>>, GyroScale |-> <<1, 1, 1>>],
    [AccelBias |-> <<1, 0, -1>>, AccelScale |-> <<2, 3, 4>>, GyroScale |-> <<2, 3, 5>>] }
INSSettingsSet == { [MagBiasNullingRate |-> 0], [MagBiasNullingRate |-> 1] }
\* BoardRotation is roll, pitch, yaw in hundredths of a degree
AttitudeSettingsSet ==
  { [BoardRotation |-> <<0, 0, 0>>, BiasCorrectGyro |-> TRUE],
    [BoardRotation |-> <<0, 0, 9000>>, BiasCorrectGyro |-> FALSE] }
SettingsObjects ==
  {"RevoCalibration", "InertialSensorSettings", "INSSettings", "AttitudeSettings"}
SettingsValues(o) ==
  IF o = "RevoCalibration" THEN RevoCalibrationSet
  ELSE IF o = "InertialSensorSettings" THEN InertialSensorSettingsSet
  ELSE IF o = "INSSettings" THEN INSSettingsSet
  ELSE AttitudeSettingsSet

\* Which driver queues PIOS_SENSORS_GetQueue finds registered
RegisteredSet ==
  { [k \in Kinds |-> TRUE],
    [k \in Kinds |-> k # "GYRO"],
    [k \in Kinds |-> k # "ACCEL"],
    [k \in Kinds |-> k # "MAG"] }

\* ------------------------------------------------------------------- state
VARIABLES
  pc,           \* position of SensorsTask
  error,        \* SensorsTask's fault flag
  lastSysTime,  \* SensorsTask's lastSysTime
  gyros,        \* SensorsTask's local sample buffers
  accels,
  mags,
  magData,      \* update_mags' MagnetometerData
  magBias,      \* magOffsetEstimation's local copy of MagBias
  cal,          \* the file's static calibration variables, revoCal, insSettings
  cbpc,         \* position of settingsUpdatedCb, per calling context
  cbLocal,      \* its local inertialSensorSettings, per calling context
  cbId,         \* which reload each context is running
  nReloads,     \* reloads started on the event context
  pending,      \* settings events queued for the event context
  uavo,         \* the UAVObjects: settings, inputs and published records
  queue,        \* the driver queues
  registered,   \* which queues exist
  tick,         \* xTaskGetTickCount, modulo TickWrap
  sleep,        \* ticks until the blocked task's timeout or wake-up time
  alarm,        \* SYSTEMALARMS_ALARM_SENSORS
  gyroAttempted, \* history: the loop has attempted a gyro receive
  wdgSinceGyro, \* history: PIOS_WDG_SENSORS was signalled since the last attempt
  stamp,        \* for each calibration variable, the reload that last wrote it
  seen,         \* reloads whose values the current cycle has read
  log           \* what the current (at the loop top: the last) iteration has done

vars ==
  << pc, error, lastSysTime, gyros, accels, mags, magData, magBias, cal, cbpc,
     cbLocal, cbId, nReloads, pending, uavo, queue, registered, tick, sleep,
     alarm, gyroAttempted, wdgSinceGyro, stamp, seen, log >>

taskLocals == << error, lastSysTime, gyros, accels, mags, magData, magBias >>
cbVars == << cbpc, cbLocal, cbId, nReloads, pending >>
envVars == << queue, registered, tick, sleep >>

CalFields ==
  { "mag_bias", "mag_scale", "accel_bias", "accel_scale", "gyro_scale", "Rbs",
    "rotate", "bias_correct_gyro", "insSettings" }

Contexts == {"task", "event"}

\* The static initialisers of sensors.c
InitCal ==
  [ revoCal |-> [MagBias |-> Zero3, MagScale |-> Zero3],
    insSettings |-> [MagBiasNullingRate |-> 0],
    bias_correct_gyro |-> TRUE,
    mag_bias |-> Zero3,
    mag_scale |-> Zero3,
    accel_bias |-> Zero3,
    accel_scale |-> Zero3,
    gyro_scale |-> Zero3,
    Rbs |-> ZeroMat,
    rotate |-> 0 ]

NoInertial == [AccelBias |-> Zero3, AccelScale |-> Zero3, GyroScale |-> Zero3]

\* The UAVObjects at start: the given settings and inputs, nothing published
Uavo(r, i, n, a, gb, h, at) ==
  [ RevoCalibration |-> r,
    InertialSensorSettings |-> i,
    INSSettings |-> n,
    AttitudeSettings |-> a,
    GyrosBias |-> gb,
    HomeLocation |-> h,
    AttitudeActual |-> at,
    Accels |-> [v |-> Zero3, temperature |-> 0],
    Gyros |-> [v |-> Zero3, temperature |-> 0],
    Magnetometer |-> Zero3,
    MagBias |-> Zero3 ]

\* The state when SensorsTask is created, for given objects and driver queues
InitState(u, reg) ==
  /\ pc = "start"
  /\ error = FALSE
  /\ lastSysTime = 0
  /\ gyros = NoSample
  /\ accels = NoSample
  /\ mags = [v |-> Zero3]
  /\ magData = Zero3
  /\ magBias = Zero3
  /\ cal = InitCal
  /\ cbpc = [c \in Contexts |-> "idle"]
  /\ cbLocal = [c \in Contexts |-> NoInertial]
  /\ cbId = [c \in Contexts |-> 0]
  /\ nReloads = 0
  /\ pending = 0
  /\ uavo = u
  /\ queue = [k \in Kinds |-> << >>]
  /\ registered = reg
  /\ tick = 0
  /\ sleep = 0
  /\ alarm = "UNINITIALISED"
  /\ gyroAttempted = FALSE
  /\ wdgSinceGyro = FALSE
  /\ stamp = [f \in CalFields |-> 0]
  /\ seen = {}
  /\ log = << >>

\* ------------------------------------------------------ settingsUpdatedCb
\* A step of settingsUpdatedCb on context c writes the calibration variables
\* in `written' on behalf of reload cbId[c].
Stamped(c, written) ==
  stamp' = [f \in CalFields |-> IF f \in written THEN cbId[c] ELSE stamp[f]]

\* The task runs the callback itself, once, before its loop
CbRuns(c) == c = "task" => pc = "init_cb"
CbReturn(c) == IF c = "task" THEN "done" ELSE "idle"

\* RevoCalibrationGet(&revoCal)
CbGetRevo(c) ==
  /\ CbRuns(c)
  /\ cbpc[c] = "get_revo"
  /\ cal' = [cal EXCEPT !.revoCal = uavo.RevoCalibration]
  /\ cbpc' = [cbpc EXCEPT ![c] = "get_inertial"]
  /\ UNCHANGED << pc, taskLocals, cbLocal, cbId, nReloads, pending, uavo, envVars,
                  alarm, gyroAttempted, wdgSinceGyro, stamp, seen, log >>

\* InertialSensorSettingsGet(&inertialSensorSettings)
CbGetInertial(c) ==
  /\ CbRuns(c)
  /\ cbpc[c] = "get_inertial"
  /\ cbLocal' = [cbLocal EXCEPT ![c] = uavo.InertialSensorSettings]
  /\ cbpc' = [cbpc EXCEPT ![c] = "get_ins"]
  /\ UNCHANGED << pc, taskLocals, cal, cbId, nReloads, pending, uavo, envVars,
                  alarm, gyroAttempted, wdgSinceGyro, stamp, seen, log >>

\* INSSettingsGet(&insSettings)
CbGetINS(c) ==
  /\ CbRuns(c)
  /\ cbpc[c] = "get_ins"
  /\ cal' = [cal EXCEPT !.insSettings = uavo.INSSettings]
  /\ Stamped(c, {"insSettings"})
  /\ cbpc' = [cbpc EXCEPT ![c] = "mag"]
  /\ UNCHANGED << pc, taskLocals, cbLocal, cbId, nReloads, pending, uavo, envVars,
                  alarm, gyroAttempted, wdgSinceGyro, seen, log >>

\* mag_bias[0..2], mag_scale[0..2] from revoCal
CbMag(c) ==
  /\ CbRuns(c)
  /\ cbpc[c] = "mag"
  /\ cal' = [cal EXCEPT !.mag_bias = cal.revoCal.MagBias,
                        !.mag_scale = cal.revoCal.MagScale]
  /\ Stamped(c, {"mag_bias", "mag_scale"})
  /\ cbpc' = [cbpc EXCEPT ![c] = "accel"]
  /\ UNCHANGED << pc, taskLocals, cbLocal, cbId, nReloads, pending, uavo, envVars,
                  alarm, gyroAttempted, wdgSinceGyro, seen, log >>

\* accel_scale as the callback loads it: every axis from AccelScale[X]
LoadAccelScale(s) == << s.AccelScale[1], s.AccelScale[1], s.AccelScale[1] >>
\* gyro_scale as the callback loads it: every axis from GyroScale[X]
LoadGyroScale(s) == << s.GyroScale[1], s.GyroScale[1], s.GyroScale[1] >>

\* accel_bias[0..2], accel_scale[0..2] from inertialSensorSettings
CbAccel(c) ==
  /\ CbRuns(c)
  /\ cbpc[c] = "accel"
  /\ cal' = [cal EXCEPT !.accel_bias = cbLocal[c].AccelBias,
                        !.accel_scale = LoadAccelScale(cbLocal[c])]
  /\ Stamped(c, {"accel_bias", "accel_scale"})
  /\ cbpc' = [cbpc EXCEPT ![c] = "gyro"]
  /\ UNCHANGED << pc, taskLocals, cbLocal, cbId, nReloads, pending, uavo, envVars,
                  alarm, gyroAttempted, wdgSinceGyro, seen, log >>

\* gyro_scale[0..2] from inertialSensorSettings
CbGyro(c) ==
  /\ CbRuns(c)
  /\ cbpc[c] = "gyro"
  /\ cal' = [cal EXCEPT !.gyro_scale = LoadGyroScale(cbLocal[c])]
  /\ Stamped(c, {"gyro_scale"})
  /\ cbpc' = [cbpc EXCEPT ![c] = "magbias"]
  /\ UNCHANGED << pc, taskLocals, cbLocal, cbId, nReloads, pending, uavo, envVars,
                  alarm, gyroAttempted, wdgSinceGyro, seen, log >>

\* ResetMagBias that leaves z as it was
ResetMagBiasXY(old) == << 0, 0, old[3] >>

\* The value settingsUpdatedCb stores with MagBiasSet: x = y = z = 0
ResetMagBias(old) == Zero3

\* MagBiasGet; magBias.x = magBias.y = magBias.z = 0; MagBiasSet
CbMagBias(c) ==
  /\ CbRuns(c)
  /\ cbpc[c] = "magbias"
  /\ uavo' = [uavo EXCEPT !.MagBias = ResetMagBias(uavo.MagBias)]
  /\ cbpc' = [cbpc EXCEPT ![c] = "biascorrect"]
  /\ UNCHANGED << pc, taskLocals, cal, cbLocal, cbId, nReloads, pending, envVars,
                  alarm, gyroAttempted, wdgSinceGyro, stamp, seen, log >>

\* AttitudeSettingsBiasCorrectGyroGet; bias_correct_gyro = (bias_correct == TRUE)
CbBiasCorrect(c) ==
  /\ CbRuns(c)
  /\ cbpc[c] = "biascorrect"
  /\ cal' = [cal EXCEPT !.bias_correct_gyro = uavo.AttitudeSettings.BiasCorrectGyro]
  /\ Stamped(c, {"bias_correct_gyro"})
  /\ cbpc' = [cbpc EXCEPT ![c] = "rotation"]
  /\ UNCHANGED << pc, taskLocals, cbLocal, cbId, nReloads, pending, uavo, envVars,
                  alarm, gyroAttempted, wdgSinceGyro, seen, log >>

\* BoardRotation / 100.0f: hundredths of a degree to degrees
Degrees(r) == [i \in 1..3 |-> r[i] \div 100]

\* AttitudeSettingsGet; all-zero BoardRotation: rotate = 0 and the callback
\* returns; otherwise Quaternion2R(rotationQuat, Rbs) fills Rbs
CbRotation(c) ==
  /\ CbRuns(c)
  /\ cbpc[c] = "rotation"
  /\ LET r == uavo.AttitudeSettings.BoardRotation IN
       IF r[1] = 0 /\ r[2] = 0 /\ r[3] = 0
       THEN /\ cal' = [cal EXCEPT !.rotate = 0]
            /\ Stamped(c, {"rotate"})
            /\ cbpc' = [cbpc EXCEPT ![c] = CbReturn(c)]
       ELSE /\ cal' = [cal EXCEPT !.Rbs = RPY2R(Degrees(r))]
            /\ Stamped(c, {"Rbs"})
            /\ cbpc' = [cbpc EXCEPT ![c] = "rotate_set"]
  /\ UNCHANGED << pc, taskLocals, cbLocal, cbId, nReloads, pending, uavo, envVars,
                  alarm, gyroAttempted, wdgSinceGyro, seen, log >>

\* rotate = 1, and the callback returns
CbRotateSet(c) ==
  /\ CbRuns(c)
  /\ cbpc[c] = "rotate_set"
  /\ cal' = [cal EXCEPT !.rotate = 1]
  /\ Stamped(c, {"rotate"})
  /\ cbpc' = [cbpc EXCEPT ![c] = CbReturn(c)]
  /\ UNCHANGED << pc, taskLocals, cbLocal, cbId, nReloads, pending, uavo, envVars,
                  alarm, gyroAttempted, wdgSinceGyro, seen, log >>

\* The event dispatcher calls settingsUpdatedCb for a queued settings event
CbDispatch ==
  /\ pending > 0
  /\ cbpc["event"] = "idle"
  /\ nReloads < MaxReloads
  /\ pending' = pending - 1
  /\ nReloads' = nReloads + 1
  /\ cbId' = [cbId EXCEPT !["event"] = nReloads + 2]
  /\ cbpc' = [cbpc EXCEPT !["event"] = "get_revo"]
  /\ UNCHANGED << pc, taskLocals, cal, cbLocal, uavo, envVars, alarm, gyroAttempted, wdgSinceGyro,
                  stamp, seen, log >>

\* ------------------------------------------------------------ environment
\* Another module sets one of the four settings objects: an event is queued
SettingsChange(o, val) ==
  /\ pending < MaxPending
  /\ nReloads + pending < MaxReloads
  /\ uavo[o] # val
  /\ uavo' = [uavo EXCEPT ![o] = val]
  /\ pending' = pending + 1
  /\ UNCHANGED << pc, taskLocals, cal, cbpc, cbLocal, cbId, nReloads, envVars,
                  alarm, gyroAttempted, wdgSinceGyro, stamp, seen, log >>

\* A sensor driver queues a sample (dropped when the queue is full)
DriverPush(k, s) ==
  /\ registered[k]
  /\ Len(queue[k]) < MaxQueue
  /\ queue' = [queue EXCEPT ![k] = Append(@, s)]
  /\ UNCHANGED << pc, taskLocals, cal, cbVars, uavo, registered, tick, sleep,
                  alarm, gyroAttempted, wdgSinceGyro, stamp, seen, log >>

\* The tick interrupt: the tick count advances, a blocked task's wait shortens
Tick ==
  /\ tick' = (tick + 1) % TickWrap
  /\ sleep' = IF sleep > 0 THEN sleep - 1 ELSE 0
  /\ UNCHANGED << pc, taskLocals, cal, cbVars, uavo, queue, registered, alarm,
                  gyroAttempted, wdgSinceGyro, stamp, seen, log >>

\* ------------------------------------------------------------ transforms
\* The reloads whose values a read of the calibration variables in fs sees
Reads(fs) == seen' = seen \cup { stamp[f] : f \in fs }

Rotated(out) == IF cal.rotate # 0 THEN rot_mult(cal.Rbs, out) ELSE out
RotFields == IF cal.rotate # 0 THEN {"rotate", "Rbs"} ELSE {"rotate"}

\* update_accels that scales the x component of the sample on every axis
update_accelsFromX(a) ==
  LET accels_out == [i \in 1..3 |-> a.v[1] * cal.accel_scale[i] - cal.accel_bias[i]]
  IN [v |-> Rotated(accels_out), temperature |-> a.temp]

\* update_accels: the AccelsData it publishes for a raw sample
update_accels(a) ==
  LET accels_out == [i \in 1..3 |-> a.v[i] * cal.accel_scale[i] - cal.accel_bias[i]]
  IN [v |-> Rotated(accels_out), temperature |-> a.temp]

\* update_gyros that subtracts GyrosBias before the rotation
update_gyrosBiasFirst(g) ==
  LET gyros_out == [i \in 1..3 |-> g.v[i] * cal.gyro_scale[i]]
      out == IF cal.bias_correct_gyro
             THEN Rotated([i \in 1..3 |-> gyros_out[i] - uavo.GyrosBias[i]])
             ELSE Rotated(gyros_out)
  IN [v |-> out, temperature |-> g.temp]

\* update_gyros: the GyrosData it publishes for a raw sample
update_gyros(g) ==
  LET gyros_out == [i \in 1..3 |-> g.v[i] * cal.gyro_scale[i]]
      rot == Rotated(gyros_out)
      out == IF cal.bias_correct_gyro
             THEN [i \in 1..3 |-> rot[i] - uavo.GyrosBias[i]]
             ELSE rot
  IN [v |-> out, temperature |-> g.temp]

\* update_mags up to the bias estimator: scale, bias, rotate
update_mags(m) ==
  Rotated([i \in 1..3 |-> m.v[i] * cal.mag_scale[i] - cal.mag_bias[i]])

\* B_e[0..2]: the measurement rotated into the NED frame
RotateToNED(R, mag) ==
  [i \in 1..3 |-> R[1][i] * mag[1] + R[2][i] * mag[2] + R[3][i] * mag[3]]

\* xy[0..1]: the horizontal field turned by the yaw angle
Horizontal(B_e, Yaw) ==
  LET cy == cosDeg(Yaw)
      sy == sinDeg(Yaw)
  IN << cy * B_e[1] + sy * B_e[2], (0 - sy) * B_e[1] + cy * B_e[2] >>

\* Correction with the sign of the rate turned round
CorrectionAway(xy, xy_norm, Bz, Rxy, Rz, rate) ==
  << IF IsNaN(FDiv(xy[1], xy_norm)) THEN NaN
     ELSE rate * (FDiv(xy[1], xy_norm) * Rxy - xy[1]),
     IF IsNaN(FDiv(xy[2], xy_norm)) THEN NaN
     ELSE rate * (FDiv(xy[2], xy_norm) * Rxy - xy[2]),
     rate * (Rz - Bz) >>

\* delta[0..2] from xy, xy_norm, B_e[2], Rxy, Rz and the rate: a NaN quotient
\* makes the whole component NaN
Correction(xy, xy_norm, Bz, Rxy, Rz, rate) ==
  << IF IsNaN(FDiv(xy[1], xy_norm)) THEN NaN
     ELSE (0 - rate) * (FDiv(xy[1], xy_norm) * Rxy - xy[1]),
     IF IsNaN(FDiv(xy[2], xy_norm)) THEN NaN
     ELSE (0 - rate) * (FDiv(xy[2], xy_norm) * Rxy - xy[2]),
     (0 - rate) * (Rz - Bz) >>

\* magOffsetEstimation: the correction delta[0..2] for the measurement mag
\* (MagBias already removed), the home field, the attitude and the rate
magDelta(mag, homeLocation, attitude, rate) ==
  LET Rxy == sqrtf(homeLocation.Be[1] * homeLocation.Be[1]
                   + homeLocation.Be[2] * homeLocation.Be[2])
      Rz == homeLocation.Be[3]
      \* each local is bound once, as a one-element set
      FromXY(B_e, xy) ==
        { Correction(xy, xy_norm, B_e[3], Rxy, Rz, rate) :
            xy_norm \in { sqrtf(xy[1] * xy[1] + xy[2] * xy[2]) } }
      FromNED(B_e) ==
        UNION { FromXY(B_e, xy) : xy \in { Horizontal(B_e, attitude.Yaw) } }
      deltas ==
        UNION { FromNED(B_e) :
                  B_e \in { RotateToNED(Quaternion2R(attitude.q), mag) } }
  IN CHOOSE delta \in deltas : TRUE

\* if (delta[0] == delta[0] && delta[1] == delta[1] && delta[2] == delta[2])
DeltaOk(delta) == FSelfEq(delta[1]) /\ FSelfEq(delta[2]) /\ FSelfEq(delta[3])

\* ---------------------------------------------------------- SensorsTask
Event(e) == log' = Append(log, e)

PeriodTicks == SENSOR_PERIOD \div portTICK_RATE_MS

\* vTaskDelayUntil: the ticks the caller stays blocked, for the previous wake
\* time prev, the tick count now and the increment inc
DelayTicks(prev, now, inc) ==
  LET wake == (prev + inc) % TickWrap
      shouldDelay == IF now < prev
                     THEN wake < prev /\ wake > now
                     ELSE wake < prev \/ wake > now
  IN IF shouldDelay THEN (wake - now) % TickWrap ELSE 0

\* TaskStart that goes on to the loop without calling settingsUpdatedCb
TaskStartNoLoad ==
  /\ pc = "start"
  /\ alarm' = "OK"
  /\ cbpc' = [cbpc EXCEPT !["task"] = "done"]
  /\ cbId' = [cbId EXCEPT !["task"] = 1]
  /\ pc' = "init_cb"
  /\ UNCHANGED << taskLocals, cal, cbLocal, nReloads, pending, uavo, envVars,
                  gyroAttempted, wdgSinceGyro, stamp, seen, log >>

\* AlarmsClear(SENSORS), then the task calls settingsUpdatedCb itself
TaskStart ==
  /\ pc = "start"
  /\ alarm' = "OK"
  /\ cbpc' = [cbpc EXCEPT !["task"] = "get_revo"]
  /\ cbId' = [cbId EXCEPT !["task"] = 1]
  /\ pc' = "init_cb"
  /\ UNCHANGED << taskLocals, cal, cbLocal, nReloads, pending, uavo, envVars,
                  gyroAttempted, wdgSinceGyro, stamp, seen, log >>

\* lastSysTime = xTaskGetTickCount(); bool error = false
TaskInitLoop ==
  /\ pc = "init_cb"
  /\ cbpc["task"] = "done"
  /\ lastSysTime' = tick
  /\ error' = FALSE
  /\ pc' = "top"
  /\ UNCHANGED << gyros, accels, mags, magData, magBias, cal, cbVars, uavo,
                  envVars, alarm, gyroAttempted, wdgSinceGyro, stamp, seen, log >>

\* LoopFault without the watchdog signal
LoopFaultNoWdg ==
  /\ pc = "top"
  /\ error
  /\ log' = << "DELAY_NEXT" >>
  /\ seen' = {}
  /\ pc' = "f_time"
  /\ UNCHANGED << taskLocals, cal, cbVars, uavo, envVars, alarm, gyroAttempted,
                  wdgSinceGyro, stamp >>

\* while (1) { if (error) { PIOS_WDG_UpdateFlag(PIOS_WDG_SENSORS)
LoopFault ==
  /\ pc = "top"
  /\ error
  /\ wdgSinceGyro' = TRUE
  /\ log' = << "WDG" >>
  /\ seen' = {}
  /\ pc' = "f_time"
  /\ UNCHANGED << gyroAttempted, taskLocals, cal, cbVars, uavo, envVars, alarm, stamp >>

\* while (1) { if (error) ... else AlarmsClear(SENSORS)
LoopClear ==
  /\ pc = "top"
  /\ ~error
  /\ alarm' = "OK"
  /\ log' = << "ALARM_CLEAR" >>
  /\ seen' = {}
  /\ pc' = "gyro"
  /\ UNCHANGED << taskLocals, cal, cbVars, uavo, envVars, gyroAttempted, wdgSinceGyro, stamp >>

\* lastSysTime = xTaskGetTickCount()
FaultTime ==
  /\ pc = "f_time"
  /\ lastSysTime' = tick
  /\ pc' = "f_delay"
  /\ UNCHANGED << error, gyros, accels, mags, magData, magBias, cal, cbVars, uavo,
                  envVars, alarm, gyroAttempted, wdgSinceGyro, stamp, seen, log >>

\* vTaskDelayUntil(&lastSysTime, SENSOR_PERIOD / portTICK_RATE_MS): the call
FaultDelay ==
  /\ pc = "f_delay"
  /\ sleep' = DelayTicks(lastSysTime, tick, PeriodTicks)
  /\ lastSysTime' = (lastSysTime + PeriodTicks) % TickWrap
  /\ Event("DELAY")
  /\ pc' = "f_wait"
  /\ UNCHANGED << error, gyros, accels, mags, magData, magBias, cal, cbVars, uavo,
                  queue, registered, tick, alarm, gyroAttempted, wdgSinceGyro, stamp, seen >>

\* vTaskDelayUntil returns; AlarmsSet(SENSORS, CRITICAL)
FaultAlarm ==
  /\ pc = "f_wait"
  /\ sleep = 0
  /\ alarm' = "CRITICAL"
  /\ Event("ALARM_SET")
  /\ pc' = "f_clear"
  /\ UNCHANGED << taskLocals, cal, cbVars, uavo, envVars, gyroAttempted, wdgSinceGyro, stamp, seen >>

\* FaultClear that leaves the fault flag set
FaultClearForgets ==
  /\ pc = "f_clear"
  /\ error' = error
  /\ Event("ERR_CLEAR")
  /\ pc' = "gyro"
  /\ UNCHANGED << lastSysTime, gyros, accels, mags, magData, magBias, cal, cbVars,
                  uavo, envVars, alarm, gyroAttempted, wdgSinceGyro, stamp, seen >>

\* error = false
FaultClear ==
  /\ pc = "f_clear"
  /\ error' = FALSE
  /\ Event("ERR_CLEAR")
  /\ pc' = "gyro"
  /\ UNCHANGED << lastSysTime, gyros, accels, mags, magData, magBias, cal, cbVars,
                  uavo, envVars, alarm, gyroAttempted, wdgSinceGyro, stamp, seen >>

\* error = true; continue
Fail(e) ==
  /\ error' = TRUE
  /\ Event(e)
  /\ pc' = "top"

\* queue == NULL: the gyro receive fails at once
GyroNoQueue ==
  /\ pc = "gyro"
  /\ ~registered["GYRO"]
  /\ Fail("GYRO_FAIL")
  /\ gyroAttempted' = TRUE
  /\ wdgSinceGyro' = FALSE
  /\ UNCHANGED << lastSysTime, gyros, accels, mags, magData, magBias, cal, cbVars,
                  uavo, envVars, alarm, stamp, seen >>

\* xQueueReceive(queue, &gyros, 4) on an empty queue: the task blocks
GyroBlock ==
  /\ pc = "gyro"
  /\ registered["GYRO"]
  /\ queue["GYRO"] = << >>
  /\ sleep' = GYRO_TIMEOUT
  /\ pc' = "gyro_wait"
  /\ gyroAttempted' = TRUE
  /\ wdgSinceGyro' = FALSE
  /\ UNCHANGED << taskLocals, cal, cbVars, uavo, queue, registered, tick, alarm,
                  stamp, seen, log >>

\* xQueueReceive(queue, &gyros, 4) takes a sample, at once or while blocked
GyroReceive ==
  /\ pc \in {"gyro", "gyro_wait"}
  /\ registered["GYRO"]
  /\ queue["GYRO"] # << >>
  /\ gyros' = Head(queue["GYRO"])
  /\ queue' = [queue EXCEPT !["GYRO"] = Tail(@)]
  /\ sleep' = 0
  /\ Event("GYRO_OK")
  /\ pc' = "accel"
  /\ gyroAttempted' = TRUE
  /\ wdgSinceGyro' = (pc = "gyro_wait" /\ wdgSinceGyro)
  /\ UNCHANGED << error, lastSysTime, accels, mags, magData, magBias, cal, cbVars,
                  uavo, registered, tick, alarm, stamp, seen >>

\* GyroTimeout without the continue: the iteration goes on to the accel receive
GyroTimeoutFallsThrough ==
  /\ pc = "gyro_wait"
  /\ queue["GYRO"] = << >>
  /\ sleep = 0
  /\ error' = TRUE
  /\ Event("GYRO_FAIL")
  /\ pc' = "accel"
  /\ UNCHANGED << lastSysTime, gyros, accels, mags, magData, magBias, cal, cbVars,
                  uavo, envVars, alarm, gyroAttempted, wdgSinceGyro, stamp, seen >>

\* xQueueReceive(queue, &gyros, 4) == errQUEUE_EMPTY after the timeout
GyroTimeout ==
  /\ pc = "gyro_wait"
  /\ queue["GYRO"] = << >>
  /\ sleep = 0
  /\ Fail("GYRO_FAIL")
  /\ UNCHANGED << lastSysTime, gyros, accels, mags, magData, magBias, cal, cbVars,
                  uavo, envVars, alarm, gyroAttempted, wdgSinceGyro, stamp, seen >>

\* AccelFail that drops the gyro sample without setting the fault flag
AccelFailSilent ==
  /\ pc = "accel"
  /\ ~registered["ACCEL"] \/ queue["ACCEL"] = << >>
  /\ error' = error
  /\ Event("ACCEL_FAIL")
  /\ pc' = "top"
  /\ UNCHANGED << lastSysTime, gyros, accels, mags, magData, magBias, cal, cbVars,
                  uavo, envVars, alarm, gyroAttempted, wdgSinceGyro, stamp, seen >>

\* queue == NULL || xQueueReceive(queue, &accels, 0) == errQUEUE_EMPTY
AccelFail ==
  /\ pc = "accel"
  /\ ~registered["ACCEL"] \/ queue["ACCEL"] = << >>
  /\ Fail("ACCEL_FAIL")
  /\ UNCHANGED << lastSysTime, gyros, accels, mags, magData, magBias, cal, cbVars,
                  uavo, envVars, alarm, gyroAttempted, wdgSinceGyro, stamp, seen >>

\* AccelReceive after which update_accels is not called
AccelReceiveNoUpdate ==
  /\ pc = "accel"
  /\ registered["ACCEL"]
  /\ queue["ACCEL"] # << >>
  /\ accels' = Head(queue["ACCEL"])
  /\ queue' = [queue EXCEPT !["ACCEL"] = Tail(@)]
  /\ Event("ACCEL_OK")
  /\ pc' = "upd_gyros"
  /\ UNCHANGED << error, lastSysTime, gyros, mags, magData, magBias, cal, cbVars,
                  uavo, registered, tick, sleep, alarm, gyroAttempted, wdgSinceGyro,
                  stamp, seen >>

\* xQueueReceive(queue, &accels, 0) takes a sample
AccelReceive ==
  /\ pc = "accel"
  /\ registered["ACCEL"]
  /\ queue["ACCEL"] # << >>
  /\ accels' = Head(queue["ACCEL"])
  /\ queue' = [queue EXCEPT !["ACCEL"] = Tail(@)]
  /\ Event("ACCEL_OK")
  /\ pc' = "upd_accels"
  /\ UNCHANGED << error, lastSysTime, gyros, mags, magData, magBias, cal, cbVars,
                  uavo, registered, tick, sleep, alarm, gyroAttempted, wdgSinceGyro, stamp, seen >>

\* update_accels(&accels): transform and AccelsSet
UpdateAccels ==
  /\ pc = "upd_accels"
  /\ uavo' = [uavo EXCEPT !.Accels = update_accels(accels)]
  /\ Reads({"accel_scale", "accel_bias"} \cup RotFields)
  /\ Event("PUB_ACCELS")
  /\ pc' = "upd_gyros"
  /\ UNCHANGED << taskLocals, cal, cbVars, envVars, alarm, gyroAttempted, wdgSinceGyro, stamp >>

\* update_gyros(&gyros): transform and GyrosSet
UpdateGyros ==
  /\ pc = "upd_gyros"
  /\ uavo' = [uavo EXCEPT !.Gyros = update_gyros(gyros)]
  /\ Reads({"gyro_scale", "bias_correct_gyro"} \cup RotFields)
  /\ Event("PUB_GYROS")
  /\ pc' = "mag"
  /\ UNCHANGED << taskLocals, cal, cbVars, envVars, alarm, gyroAttempted, wdgSinceGyro, stamp >>

\* queue != NULL && xQueueReceive(queue, &mags, 0) != errQUEUE_EMPTY
MagReceive ==
  /\ pc = "mag"
  /\ registered["MAG"]
  /\ queue["MAG"] # << >>
  /\ mags' = Head(queue["MAG"])
  /\ queue' = [queue EXCEPT !["MAG"] = Tail(@)]
  /\ Event("MAG_OK")
  /\ pc' = "upd_mags"
  /\ UNCHANGED << error, lastSysTime, gyros, accels, magData, magBias, cal, cbVars,
                  uavo, registered, tick, sleep, alarm, gyroAttempted, wdgSinceGyro, stamp, seen >>

\* MagNone that treats the missing mag sample as a fault
MagNoneFaults ==
  /\ pc = "mag"
  /\ ~registered["MAG"] \/ queue["MAG"] = << >>
  /\ error' = TRUE
  /\ Event("MAG_NONE")
  /\ pc' = "wdg"
  /\ UNCHANGED << lastSysTime, gyros, accels, mags, magData, magBias, cal, cbVars,
                  uavo, envVars, alarm, gyroAttempted, wdgSinceGyro, stamp, seen >>

\* no mag queue or no mag sample: the mag update is skipped
MagNone ==
  /\ pc = "mag"
  /\ ~registered["MAG"] \/ queue["MAG"] = << >>
  /\ Event("MAG_NONE")
  /\ pc' = "wdg"
  /\ UNCHANGED << taskLocals, cal, cbVars, uavo, envVars, alarm, gyroAttempted, wdgSinceGyro, stamp,
                  seen >>

\* UpdateMags that runs the estimator for every non-zero rate
UpdateMagsNonZero ==
  /\ pc = "upd_mags"
  /\ magData' = update_mags(mags)
  /\ Reads({"mag_scale", "mag_bias", "insSettings"} \cup RotFields)
  /\ pc' = IF cal.insSettings.MagBiasNullingRate # 0 THEN "est_get" ELSE "mag_set"
  /\ UNCHANGED << error, lastSysTime, gyros, accels, mags, magBias, cal, cbVars,
                  uavo, envVars, alarm, gyroAttempted, wdgSinceGyro, stamp, log >>

\* update_mags(&mags) up to: if (insSettings.MagBiasNullingRate > 0)
UpdateMags ==
  /\ pc = "upd_mags"
  /\ magData' = update_mags(mags)
  /\ Reads({"mag_scale", "mag_bias", "insSettings"} \cup RotFields)
  /\ pc' = IF cal.insSettings.MagBiasNullingRate > 0 THEN "est_get" ELSE "mag_set"
  /\ UNCHANGED << error, lastSysTime, gyros, accels, mags, magBias, cal, cbVars,
                  uavo, envVars, alarm, gyroAttempted, wdgSinceGyro, stamp, log >>

\* magOffsetEstimation: MagBiasGet(&magBias); mag -= magBias
EstGet ==
  /\ pc = "est_get"
  /\ magBias' = uavo.MagBias
  /\ magData' = [i \in 1..3 |-> magData[i] - uavo.MagBias[i]]
  /\ pc' = "est_calc"
  /\ UNCHANGED << error, lastSysTime, gyros, accels, mags, cal, cbVars, uavo,
                  envVars, alarm, gyroAttempted, wdgSinceGyro, stamp, seen, log >>

\* delta[0..2] as magOffsetEstimation computes it in the current state
EstDelta ==
  magDelta(magData, uavo.HomeLocation, uavo.AttitudeActual,
           cal.insSettings.MagBiasNullingRate)

\* EstimatorSet without the NaN guard
EstimatorSetUnguarded(record, bias, delta) == [i \in 1..3 |-> bias[i] + delta[i]]

\* The MagBias record after magOffsetEstimation's guarded update
EstimatorSet(record, bias, delta) ==
  IF DeltaOk(delta) THEN [i \in 1..3 |-> bias[i] + delta[i]] ELSE record

\* magOffsetEstimation: HomeLocationGet, AttitudeActualGet, delta, and
\* magBias += delta; MagBiasSet(&magBias) unless a delta component is NaN
EstCalc ==
  /\ pc = "est_calc"
  /\ \E delta \in {EstDelta} :
       /\ uavo' = [uavo EXCEPT !.MagBias = EstimatorSet(uavo.MagBias, magBias, delta)]
       /\ magBias' = EstimatorSet(magBias, magBias, delta)
       /\ Event(IF DeltaOk(delta) THEN "BIAS_SET" ELSE "BIAS_SKIP")
  /\ Reads({"insSettings"})
  /\ pc' = "mag_set"
  /\ UNCHANGED << error, lastSysTime, gyros, accels, mags, magData, cal, cbVars,
                  envVars, alarm, gyroAttempted, wdgSinceGyro, stamp >>

\* MagnetometerSet(&magData)
MagSet ==
  /\ pc = "mag_set"
  /\ uavo' = [uavo EXCEPT !.Magnetometer = magData]
  /\ Event("PUB_MAG")
  /\ pc' = "wdg"
  /\ UNCHANGED << taskLocals, cal, cbVars, envVars, alarm, gyroAttempted, wdgSinceGyro, stamp, seen >>

\* PIOS_WDG_UpdateFlag(PIOS_WDG_SENSORS) at the end of the iteration
LoopWdg ==
  /\ pc = "wdg"
  /\ wdgSinceGyro' = TRUE
  /\ Event("WDG")
  /\ pc' = "top"
  /\ UNCHANGED << gyroAttempted, taskLocals, cal, cbVars, uavo, envVars, alarm, stamp, seen >>

\* ------------------------------------------------------------ the system
Callback(c) ==
  \/ CbGetRevo(c)
  \/ CbGetInertial(c)
  \/ CbGetINS(c)
  \/ CbMag(c)
  \/ CbAccel(c)
  \/ CbGyro(c)
  \/ CbMagBias(c)
  \/ CbBiasCorrect(c)
  \/ CbRotation(c)
  \/ CbRotateSet(c)

Task ==
  \/ TaskStart
  \/ Callback("task")
  \/ TaskInitLoop
  \/ LoopFault
  \/ LoopClear
  \/ FaultTime
  \/ FaultDelay
  \/ FaultAlarm
  \/ FaultClear
  \/ GyroNoQueue
  \/ GyroBlock
  \/ GyroReceive
  \/ GyroTimeout
  \/ AccelFail
  \/ AccelReceive
  \/ UpdateAccels
  \/ UpdateGyros
  \/ MagReceive
  \/ MagNone
  \/ UpdateMags
  \/ EstGet
  \/ EstCalc
  \/ MagSet
  \/ LoopWdg

\* The acquisition loop with its drivers and the tick, settings fixed after
\* the start-up load
LoopUavo(a) ==
  Uavo([MagBias |-> <<0, 0, -1>>, MagScale |-> <<1, 2, 3>>],
       [AccelBias |-> <<1, 0, -1>>, AccelScale |-> <<2, 3, 4>>, GyroScale |-> <<2, 3, 5>>],
       [MagBiasNullingRate |-> 1],
       a,
       <<1, 1, 2>>,
       [Be |-> <<3, 4, 5>>],
       [q |-> <<1, 0, 0, 0>>, Yaw |-> 0])

LoopSamples(k) ==
  IF k = "GYRO" THEN { [v |-> <<1, 2, 3>>, temp |-> 20] }
  ELSE IF k = "ACCEL" THEN { [v |-> <<2, 0, 0>>, temp |-> 20] }
  ELSE MagSamples

Init ==
  \E reg \in RegisteredSet : \E a \in AttitudeSettingsSet :
    InitState(LoopUavo(a), reg)

Next ==
  \/ Task
  \/ \E k \in Kinds : \E s \in LoopSamples(k) : DriverPush(k, s)
  \/ Tick

Spec == Init /\ [][Next]_vars

\* The loop together with settings changes, which run settingsUpdatedCb on the
\* event dispatcher's context while the loop runs
AllRegistered == [k \in Kinds |-> TRUE]

InitCfg ==
  InitState(LoopUavo([BoardRotation |-> <<0, 0, 0>>, BiasCorrectGyro |-> TRUE]),
            AllRegistered)

CfgSamples(k) ==
  IF k = "MAG" THEN { [v |-> <<3, 0, 4>>] } ELSE LoopSamples(k)

\* No tick in these runs: what the loop and the callback do within one tick
TaskCfg ==
  \/ TaskStart
  \/ Callback("task")
  \/ TaskInitLoop
  \/ LoopFault
  \/ LoopClear
  \/ FaultTime
  \/ FaultDelay
  \/ GyroBlock
  \/ GyroReceive
  \/ AccelFail
  \/ AccelReceive
  \/ UpdateAccels
  \/ UpdateGyros
  \/ MagReceive
  \/ MagNone
  \/ UpdateMags
  \/ EstGet
  \/ EstCalc
  \/ MagSet
  \/ LoopWdg

NextCfg ==
  \/ TaskCfg
  \/ CbDispatch
  \/ Callback("event")
  \/ \E o \in SettingsObjects : \E val \in SettingsValues(o) : SettingsChange(o, val)
  \/ \E k \in Kinds : \E s \in CfgSamples(k) : DriverPush(k, s)

SpecCfg == InitCfg /\ [][NextCfg]_vars

\* The loop under the scheduling FreeRTOS gives it: a ready task runs, the tick
\* interrupt keeps coming
SpecFair == Spec /\ WF_vars(Task) /\ WF_vars(Tick)

\* The calibration transforms over a range of settings and samples: the loop
\* and its start-up load within one tick, every queue registered, the settings
\* fixed after the start
CalInertialSet ==
  InertialSensorSettingsSet \cup
    { [AccelBias |-> <<1, 0, -1>>, AccelScale |-> <<0, 0, 0>>, GyroScale |-> <<0, 0, 0>>] }
CalINSSet == INSSettingsSet \cup { [MagBiasNullingRate |-> -1] }
CalAttitudeSet ==
  { [BoardRotation |-> r, BiasCorrectGyro |-> b] :
      r \in { <<0, 0, 0>>, <<0, 0, 9000>> }, b \in BOOLEAN }
CalGyrosBiasSet == { <<1, 2, 3>>, <<-2, 0, 5>> }

CalUavo(i, n, a, gb) ==
  Uavo([MagBias |-> <<0, 0, -1>>, MagScale |-> <<1, 2, 3>>], i, n, a, gb,
       [Be |-> <<3, 4, 5>>], [q |-> <<1, 0, 0, 0>>, Yaw |-> 0])

CalSamples(k) ==
  IF k = "GYRO" THEN { [v |-> <<1, 2, 3>>, temp |-> 20], [v |-> <<0, -1, 2>>, temp |-> 25] }
  ELSE IF k = "ACCEL" THEN { [v |-> <<2, -1, 3>>, temp |-> 20], [v |-> <<1, 2, 3>>, temp |-> 25] }
  ELSE { [v |-> <<3, 0, 4>>] }

InitCal2 ==
  \E i \in CalInertialSet : \E n \in CalINSSet :
    \E a \in CalAttitudeSet : \E gb \in CalGyrosBiasSet :
      InitState(CalUavo(i, n, a, gb), AllRegistered)

NextCal ==
  \/ TaskCfg
  \/ \E k \in Kinds : \E s \in CalSamples(k) : DriverPush(k, s)

SpecCal == InitCal2 /\ [][NextCal]_vars

\* The bias estimator fed the same measurement again and again, for a range
\* of nulling rates; the drivers deliver while the estimate is within MaxBias
EstINSSet == { [MagBiasNullingRate |-> r] : r \in 1..3 }
EstSamples(k) ==
  IF k = "GYRO" THEN { [v |-> <<1, 2, 3>>, temp |-> 20] }
  ELSE IF k = "ACCEL" THEN { [v |-> <<2, -1, 3>>, temp |-> 20] }
  ELSE { [v |-> <<3, 0, 4>>] }
BiasInRange == \A i \in 1..3 : uavo.MagBias[i] \in (0 - MaxBias)..MaxBias

InitEst ==
  \E n \in EstINSSet : \E a \in AttitudeSettingsSet :
    InitState(CalUavo([AccelBias |-> <<1, 0, -1>>, AccelScale |-> <<2, 3, 4>>,
                       GyroScale |-> <<2, 3, 5>>], n, a, <<1, 2, 3>>),
              AllRegistered)

NextEst ==
  \/ TaskCfg
  \/ \E k \in Kinds : \E s \in EstSamples(k) : BiasInRange /\ DriverPush(k, s)

SpecEst == InitEst /\ [][NextEst]_vars

\* ------------------------------------------------------------ properties
Has(e) == \E i \in 1..Len(log) : log[i] = e
Count(e) == Cardinality({ i \in 1..Len(log) : log[i] = e })
Before(e, f) == \E i, j \in 1..Len(log) : i < j /\ log[i] = e /\ log[j] = f
Ends(e) == Len(log) > 0 /\ log[Len(log)] = e
TaskSteps == pc' # pc
Published == Has("PUB_ACCELS") \/ Has("PUB_GYROS") \/ Has("PUB_MAG")

\* The gyro receive of this step fails: no queue, or still empty at the timeout
GyroFails ==
  /\ TaskSteps
  /\ \/ pc = "gyro" /\ ~registered["GYRO"]
     \/ pc = "gyro_wait" /\ queue["GYRO"] = << >>

C1_State ==
  Has("GYRO_FAIL") =>
    /\ Ends("GYRO_FAIL")
    /\ pc = "top"
    /\ error
    /\ ~Published
    /\ ~(Has("ACCEL_OK") \/ Has("ACCEL_FAIL") \/ Has("MAG_OK") \/ Has("MAG_NONE"))
C1_Step ==
  GyroFails =>
    /\ error'
    /\ pc' = "top"
    /\ log' = Append(log, "GYRO_FAIL")
    /\ queue' = queue
    /\ uavo' = uavo
\* C1: an iteration whose gyro queue is absent or whose gyro receive comes back
\* empty sets the fault flag and ends at once: the accel and mag queues are not
\* touched and nothing is published in that iteration.
C1_GyroFailureEndsIteration == [](C1_State) /\ [][C1_Step]_vars
C1_Witness ==
  /\ pc = "top"
  /\ error
  /\ Ends("GYRO_FAIL")
  /\ registered["GYRO"]
  /\ queue["ACCEL"] # << >>
  /\ queue["MAG"] # << >>

FaultStart == << "WDG", "DELAY", "ALARM_SET", "ERR_CLEAR" >>
IsPrefix(a, b) == Len(a) <= Len(b) /\ \A i \in 1..Len(a) : a[i] = b[i]
Faulted == Ends("GYRO_FAIL") \/ Ends("ACCEL_FAIL")

C2_State ==
  /\ log # << >> => log[1] \in {"WDG", "ALARM_CLEAR"}
  /\ (pc = "top" /\ log # << >>) => (error <=> Faulted)
  /\ (log # << >> /\ log[1] = "WDG") =>
       /\ IsPrefix(log, FaultStart) \/ IsPrefix(FaultStart, log)
       /\ Len(log) < 4 => error
       /\ Len(log) >= 3 => alarm = "CRITICAL"
       /\ Len(log) >= 4 => (error <=> Faulted)
  /\ (log # << >> /\ log[1] = "ALARM_CLEAR") =>
       /\ alarm = "OK"
       /\ ~Has("DELAY")
       /\ ~Has("ALARM_SET")
C2_Step ==
  /\ (pc = "top" /\ TaskSteps) =>
       IF error
       THEN log' = << "WDG" >> /\ wdgSinceGyro' /\ alarm' = alarm
       ELSE log' = << "ALARM_CLEAR" >> /\ alarm' = "OK"
  /\ (log' = Append(log, "ALARM_SET")) => (sleep = 0 /\ alarm' = "CRITICAL")
\* C2: an iteration that follows a fault does, in this order and before any
\* receive: watchdog signal, delay, AlarmsSet(SENSORS, CRITICAL), fault flag
\* cleared; an iteration starts by clearing the alarm exactly when the previous
\* one set no fault, so one fault gives one delay-and-alarm start.
C2_FaultHandlingOrder == [](C2_State) /\ [][C2_Step]_vars
C2_Witness ==
  /\ pc = "gyro"
  /\ log = FaultStart
  /\ alarm = "CRITICAL"
  /\ ~error

C3_State == (pc = "gyro" /\ gyroAttempted) => wdgSinceGyro
\* C3: the watchdog is signalled between any two consecutive gyro receive
\* attempts, whatever the sensors deliver, and so again and again for ever.
C3_WatchdogKeptAlive == [](C3_State) /\ []<><<LoopFault \/ LoopWdg>>_vars
C3_Witness ==
  /\ pc = "gyro"
  /\ gyroAttempted
  /\ wdgSinceGyro
  /\ ~registered["GYRO"]

\* C4: every calibration value one acquisition cycle reads comes from one and
\* the same reload by settingsUpdatedCb, also when the callback runs on the
\* event context while the loop runs.
C4_NoTornConfiguration == Cardinality(seen) <= 1

\* The accel receive of this step fails: no queue, or the queue is empty
AccelFails ==
  /\ TaskSteps
  /\ pc = "accel"
  /\ ~registered["ACCEL"] \/ queue["ACCEL"] = << >>

\* At the loop top the log is a whole iteration: what it took, it published
NoSilentDrop ==
  pc = "top" =>
    /\ (Has("GYRO_OK") /\ ~Has("PUB_GYROS")) => error
    /\ (Has("ACCEL_OK") /\ ~Has("PUB_ACCELS")) => error
    /\ (Has("MAG_OK") /\ ~Has("PUB_MAG")) => error
C5_State ==
  /\ Has("ACCEL_FAIL") =>
       /\ Ends("ACCEL_FAIL")
       /\ Has("GYRO_OK")
       /\ pc = "top"
       /\ error
       /\ ~Published
       /\ ~(Has("MAG_OK") \/ Has("MAG_NONE"))
  /\ NoSilentDrop
C5_Step ==
  AccelFails =>
    /\ error'
    /\ pc' = "top"
    /\ log' = Append(log, "ACCEL_FAIL")
    /\ queue' = queue
    /\ uavo' = uavo
\* C5: when the gyro receive succeeded and the accel queue is absent or empty,
\* the fault flag is set and the iteration ends with nothing published (the gyro
\* sample is dropped, no mag receive); a sample taken and not published always
\* comes with the fault flag set in that iteration.
C5_AccelFailureEndsIteration == [](C5_State) /\ [][C5_Step]_vars
C5_Witness ==
  /\ pc = "top"
  /\ error
  /\ Ends("ACCEL_FAIL")
  /\ Has("GYRO_OK")
  /\ queue["MAG"] # << >>

C6_State ==
  Has("MAG_NONE") =>
    /\ Before("PUB_ACCELS", "PUB_GYROS")
    /\ Before("PUB_GYROS", "MAG_NONE")
    /\ ~Has("PUB_MAG")
    /\ ~Has("BIAS_SET")
    /\ ~error
    /\ pc \in {"wdg", "top"}
    /\ pc = "top" => Ends("WDG")
C6_Step ==
  /\ ~Has("MAG_OK")' =>
       (uavo.Magnetometer' = uavo.Magnetometer /\ uavo.MagBias' = uavo.MagBias)
  /\ (pc = "mag" /\ TaskSteps /\ (~registered["MAG"] \/ queue["MAG"] = << >>)) =>
       (pc' = "wdg" /\ queue' = queue /\ uavo' = uavo)
  /\ (pc = "top" /\ Has("MAG_NONE") /\ TaskSteps) =>
       (alarm' = "OK" /\ log' = << "ALARM_CLEAR" >>)
\* C6: when gyro and accel are received and the mag queue is absent or empty,
\* accel and gyro are published, Magnetometer and MagBias are not written, the
\* fault flag stays clear, the watchdog is signalled at the end of the
\* iteration and the next iteration clears the alarm.
C6_MissingMagIsNoFault == [](C6_State) /\ [][C6_Step]_vars
C6_Witness ==
  /\ pc = "top"
  /\ Has("MAG_NONE")
  /\ Ends("WDG")
  /\ ~registered["MAG"]
  /\ alarm = "CRITICAL"

C7_State ==
  /\ Count("PUB_ACCELS") <= 1
  /\ Count("PUB_GYROS") <= 1
  /\ Has("PUB_GYROS") => Before("PUB_ACCELS", "PUB_GYROS")
  /\ Has("PUB_ACCELS") <=> (Has("GYRO_OK") /\ Has("ACCEL_OK") /\ pc # "upd_accels")
  /\ Has("PUB_GYROS") <=> (Has("PUB_ACCELS") /\ pc # "upd_gyros")
C7_Step ==
  /\ uavo.Accels' # uavo.Accels => (pc = "upd_accels" /\ log' = Append(log, "PUB_ACCELS"))
  /\ uavo.Gyros' # uavo.Gyros =>
       (pc = "upd_gyros" /\ Ends("PUB_ACCELS") /\ log' = Append(log, "PUB_GYROS"))
  /\ Has("PUB_ACCELS")' => uavo.Accels' = update_accels(accels)
  /\ Has("PUB_GYROS")' => uavo.Gyros' = update_gyros(gyros)
\* C7: in every iteration Gyros is published exactly when Accels was published
\* earlier in that iteration, which is when both the gyro and the accel receive
\* succeeded; each is published at most once, the gyro never before the accel.
C7_AccelsBeforeGyros == [](C7_State) /\ [][C7_Step]_vars
C7_Witness ==
  /\ pc = "mag"
  /\ Before("PUB_ACCELS", "PUB_GYROS")
  /\ uavo.Accels = update_accels(accels)
  /\ uavo.Gyros = update_gyros(gyros)
  /\ uavo.Gyros.v # Zero3

\* A gyro or accel receive fails in this step
ReceiveFails == GyroNoQueue \/ GyroTimeout \/ AccelFail
Healthy ==
  /\ alarm = "OK"
  /\ ~error
  /\ (pc = "top" /\ log # << >>) => (Has("PUB_ACCELS") /\ Has("PUB_GYROS"))
\* C8: once every gyro and accel receive succeeds, the loop recovers: the
\* alarm gets cleared and is not raised again, the fault flag stays clear and
\* every later iteration publishes accel and gyro.
C8_SelfHealing ==
  (<>[][~ReceiveFails]_vars) => (<>[]Healthy /\ []<><<UpdateGyros>>_vars)
C8_Witness ==
  /\ pc = "top"
  /\ ~error
  /\ alarm = "CRITICAL"
  /\ log[1] = "WDG"
  /\ Has("PUB_ACCELS")
  /\ Has("PUB_GYROS")

\* A step of settingsUpdatedCb, on either context, at the given position
CbStepAt(p) == \E c \in Contexts : cbpc[c] = p /\ cbpc'[c] # p
C9_Step ==
  /\ CbStepAt("magbias") => uavo.MagBias' = Zero3
  /\ (\E p \in {"biascorrect", "rotation", "rotate_set"} : CbStepAt(p)) =>
       uavo.MagBias' = uavo.MagBias
\* C9: a run of settingsUpdatedCb stores exactly (0,0,0) in MagBias, whatever
\* the record held before, and nothing it does afterwards changes the record.
C9_ReloadZeroesMagBias == [][C9_Step]_vars
C9_Witness ==
  /\ cbpc["event"] = "biascorrect"
  /\ uavo.MagBias = Zero3
  /\ magBias # Zero3
  /\ pc \notin {"est_get", "est_calc"}

\* Magnetometer as update_mags publishes it with the MagBias record of now
MagMinusBias == [i \in 1..3 |-> update_mags(mags)[i] - uavo.MagBias[i]]
C10_State ==
  Has("BIAS_SKIP") =>
    /\ uavo.MagBias = magBias
    /\ ~error
    /\ pc \in {"mag_set", "wdg", "top"}
    /\ pc # "mag_set" => (Has("PUB_MAG") /\ uavo.Magnetometer = MagMinusBias)
C10_Step ==
  /\ (pc = "est_calc" /\ TaskSteps /\ ~DeltaOk(EstDelta)) =>
       /\ uavo' = uavo
       /\ error' = error
       /\ alarm' = alarm
       /\ log' = Append(log, "BIAS_SKIP")
  /\ (pc = "top" /\ Has("BIAS_SKIP") /\ TaskSteps) => alarm' = "OK"
\* C10: when a component of the estimator's delta is not a number, MagBias is
\* left as it was, no fault and no alarm is raised, and the measurement is
\* still published in that cycle, with the unchanged MagBias subtracted.
C10_NaNDeltaDiscarded == [](C10_State) /\ [][C10_Step]_vars
C10_Witness ==
  /\ pc = "wdg"
  /\ Has("BIAS_SKIP")
  /\ uavo.Magnetometer = MagMinusBias
  /\ uavo.MagBias # Zero3

\* The unrotated, scaled and bias-corrected value of a raw vector
Scaled(raw, scale, bias) == [i \in 1..3 |-> raw[i] * scale[i] - bias[i]]
C11_Step ==
  /\ (pc = "upd_accels" /\ TaskSteps /\ cal.rotate = 0) =>
       /\ \A i \in 1..3 :
            uavo'.Accels.v[i] = accels.v[i] * cal.accel_scale[i] - cal.accel_bias[i]
       /\ uavo'.Accels.temperature = accels.temp
       /\ cal.accel_scale = Zero3 =>
            uavo'.Accels.v = [i \in 1..3 |-> 0 - cal.accel_bias[i]]
  /\ (pc = "upd_gyros" /\ TaskSteps /\ cal.rotate = 0 /\ ~cal.bias_correct_gyro) =>
       /\ \A i \in 1..3 : uavo'.Gyros.v[i] = gyros.v[i] * cal.gyro_scale[i]
       /\ uavo'.Gyros.temperature = gyros.temp
       /\ cal.gyro_scale = Zero3 => uavo'.Gyros.v = Zero3
\* C11: without rotation, each published accel component is the same axis of
\* the raw sample times that axis's scale minus that axis's bias, each
\* published gyro component (no bias correction) the same axis times its
\* scale; the temperature is passed through; all-zero scale gives -bias (zero
\* for the gyro).
C11_UnrotatedIsPerAxis == [][C11_Step]_vars
C11_Witness ==
  /\ pc = "mag"
  /\ cal.rotate = 0
  /\ ~cal.bias_correct_gyro
  /\ accels.v = <<2, -1, 3>>
  /\ cal.accel_scale # Zero3
  /\ cal.accel_bias # Zero3
  /\ uavo.Accels = [v |-> Scaled(accels.v, cal.accel_scale, cal.accel_bias),
                    temperature |-> 20]
  /\ uavo.Gyros = [v |-> Scaled(gyros.v, cal.gyro_scale, Zero3), temperature |-> gyros.temp]

\* The raw gyro sample scaled, then rotated when rotation is on
RotatedScaledGyro ==
  LET scaled == Scaled(gyros.v, cal.gyro_scale, Zero3)
  IN IF cal.rotate # 0 THEN rot_mult(cal.Rbs, scaled) ELSE scaled
C12_Step ==
  (pc = "upd_gyros" /\ TaskSteps) =>
    /\ cal.bias_correct_gyro =>
         uavo'.Gyros.v = [i \in 1..3 |-> RotatedScaledGyro[i] - uavo.GyrosBias[i]]
    /\ ~cal.bias_correct_gyro => uavo'.Gyros.v = RotatedScaledGyro
    /\ (uavo'.Gyros.v # RotatedScaledGyro) => cal.bias_correct_gyro
\* C12: the published gyro is the scaled and rotated sample minus GyrosBias
\* exactly when bias_correct_gyro is on (the bias is taken off after scaling
\* and rotation); with the flag off it is the scaled and rotated sample,
\* whatever GyrosBias holds.
C12_BiasCorrectionIffEnabled == [][C12_Step]_vars
C12_Witness ==
  /\ pc = "mag"
  /\ cal.rotate = 1
  /\ cal.bias_correct_gyro
  /\ cal.gyro_scale # Zero3
  /\ uavo.GyrosBias = <<1, 2, 3>>
  /\ uavo.Gyros.v = [i \in 1..3 |-> RotatedScaledGyro[i] - uavo.GyrosBias[i]]
  /\ uavo.Gyros.v # RotatedScaledGyro

\* C13: once a reload by settingsUpdatedCb has completed, every axis of the
\* stored mag, accel and gyro scale, and of the stored mag and accel bias, is
\* the configured value of that same axis.
C13_PerAxisCalibrationLoaded ==
  cbpc["task"] = "done" =>
    \A i \in 1..3 :
      /\ cal.mag_bias[i] = uavo.RevoCalibration.MagBias[i]
      /\ cal.mag_scale[i] = uavo.RevoCalibration.MagScale[i]
      /\ cal.accel_bias[i] = uavo.InertialSensorSettings.AccelBias[i]
      /\ cal.accel_scale[i] = uavo.InertialSensorSettings.AccelScale[i]
      /\ cal.gyro_scale[i] = uavo.InertialSensorSettings.GyroScale[i]

\* C14: the fault path delays to an absolute deadline: the wake-up time is
\* the stored period boundary plus one period, so the path does not replace
\* the stored boundary by the time at which the delay is requested.
C14_AbsoluteDeadline ==
  [][(pc = "f_time" /\ TaskSteps) => lastSysTime' = lastSysTime]_vars

\* C15: the wait of the blocking gyro receive is bounded strictly below the
\* loop period: while the task is blocked in it, fewer ticks than one
\* SENSOR_PERIOD remain until its timeout.
C15_GyroWaitBelowPeriod == pc = "gyro_wait" => sleep < PeriodTicks

NullingOn == cal.insSettings.MagBiasNullingRate > 0
Estimated == Has("BIAS_SET") \/ Has("BIAS_SKIP")
C16_Step ==
  /\ (pc = "upd_mags" /\ TaskSteps) =>
       /\ (pc' = "est_get") <=> NullingOn
       /\ (pc' = "mag_set") <=> ~NullingOn
       /\ magData' = update_mags(mags)
  /\ (pc \in {"est_get", "est_calc"} /\ TaskSteps) => NullingOn
  /\ (pc = "est_calc" /\ TaskSteps) =>
       /\ magData = [i \in 1..3 |-> update_mags(mags)[i] - uavo.MagBias[i]]
       /\ magData' = magData
  /\ (pc = "mag_set" /\ TaskSteps) =>
       /\ uavo'.Magnetometer = magData
       /\ Estimated <=> NullingOn
       /\ ~NullingOn => uavo'.Magnetometer = update_mags(mags)
  /\ (pc \in {"upd_mags", "mag_set"} /\ TaskSteps /\ ~NullingOn) =>
       uavo'.MagBias = uavo.MagBias
HomeRxy ==
  sqrtf(uavo.HomeLocation.Be[1] * uavo.HomeLocation.Be[1]
        + uavo.HomeLocation.Be[2] * uavo.HomeLocation.Be[2])
HomeRz == uavo.HomeLocation.Be[3]
\* A bias-corrected measurement in the navigation frame
NavFrame(B) == RotateToNED(Quaternion2R(uavo.AttitudeActual.q), B)
HorizNorm(B) == sqrtf(NavFrame(B)[1] * NavFrame(B)[1] + NavFrame(B)[2] * NavFrame(B)[2])
Dist(a, b) == IF a >= b THEN a - b ELSE b - a
\* What the same raw measurement gives once MagBias has grown by delta
NextMeasurement(delta) == [i \in 1..3 |-> magData[i] - delta[i]]
Rate == cal.insSettings.MagBiasNullingRate
\* An update does not move the measurement further from the reference
NotFurther ==
  /\ Dist(HorizNorm(NextMeasurement(EstDelta)), HomeRxy)
       <= Dist(HorizNorm(magData), HomeRxy)
  /\ Dist(NavFrame(NextMeasurement(EstDelta))[3], HomeRz)
       <= Dist(NavFrame(magData)[3], HomeRz)
\* At the reference the correction is zero and MagBias stays
FixedPoint ==
  (HorizNorm(magData) = HomeRxy /\ NavFrame(magData)[3] = HomeRz) =>
    /\ EstDelta = Zero3
    /\ uavo'.MagBias = uavo.MagBias
EstimatorStep == pc = "est_calc" /\ TaskSteps /\ DeltaOk(EstDelta)
C17_Step ==
  EstimatorStep =>
    /\ uavo'.MagBias = [i \in 1..3 |-> uavo.MagBias[i] + EstDelta[i]]
    /\ Rate <= 2 => NotFurther
    /\ FixedPoint
C18_ResetNotLost ==
  [][(pc = "est_calc" /\ TaskSteps /\ magBias # Zero3 /\ uavo.MagBias = Zero3) =>
       uavo'.MagBias # [i \in 1..3 |-> magBias[i] + EstDelta[i]]]_vars

\* The published records as they are before anything was published
NothingPublished ==
  /\ uavo.Accels = [v |-> Zero3, temperature |-> 0]
  /\ uavo.Gyros = [v |-> Zero3, temperature |-> 0]
  /\ uavo.Magnetometer = Zero3
  /\ log = << >>
\* C19: nothing is published before the first configuration load: the loop
\* starts only after SensorsTask's own call of settingsUpdatedCb has returned,
\* and no published measurement uses a calibration value that no load wrote.
C19_LoadBeforeFirstPublish ==
  /\ pc \in {"start", "init_cb"} => NothingPublished
  /\ pc \notin {"start", "init_cb"} =>
       /\ cbpc["task"] = "done"
       /\ \A f \in CalFields \ {"Rbs"} : stamp[f] # 0
       /\ cal.rotate # 0 => stamp["Rbs"] # 0
  /\ 0 \notin seen
C19_Witness ==
  /\ pc = "mag"
  /\ Has("PUB_GYROS")
  /\ seen = {1}
  /\ cal.rotate = 1
  /\ uavo.Accels.v # Zero3

====
